---- MODULE Spec2Model ----
(***************************************************************************)
(* Model of src/loc_counter.py: the repository line-of-code counter.       *)
(*                                                                         *)
(* Strings are sequences of one-character strings, so that suffix,         *)
(* substring and glob matching are computed character by character as      *)
(* pathlib / fnmatch / str do.  Time is in milliseconds.                   *)
(***************************************************************************)
EXTENDS Integers, Sequences, FiniteSets, TLC

VARIABLES
    root,               \* root_dir, a string
    tree,               \* the file tree under root: set of [rel, kind, content]
    exclude_dirs,       \* list of strings
    exclude_files,      \* list of glob patterns
    include_extensions, \* list of strings
    pc,                 \* position of the run
    extIdx,             \* index of `ext` in the loop of line 97
    pending,            \* entries root_path.glob(pattern) has not yielded yet
    stats,              \* defaultdict(int): list of <<key, value>> in insertion order
    file_counts,        \* defaultdict(int), same representation
    progress,           \* the ProgressLogger object
    now,                \* the last reading of time.time()
    writes,             \* number of progress lines written to stdout
    shown,              \* the last progress line written
    processed,          \* history: <<ext, rel>> of every file counted, in order
    lastCall,           \* history: the last ProgressLogger call and its arguments
    report,             \* the breakdown rows of format_results
    arg,                \* count_lines: content of the file read
    ret                 \* count_lines: returned value

vars == <<root, tree, exclude_dirs, exclude_files, include_extensions, pc, extIdx,
          pending, stats, file_counts, progress, now, writes, shown, processed,
          lastCall, report, arg, ret>>

----------------------------------------------------------------------------
(* Bounds of the model *)

MaxFiles == 2       \* files in a tree
MaxLen == 4         \* characters in a file whose lines are counted
MaxLines == 3       \* largest line count given to format_results
MaxCount == 2       \* largest file count given to format_results
MaxClock == 2       \* last clock reading of a scan, in ticks of 50 ms
MaxLoggerClock == 4 \* last clock reading of a free ProgressLogger
MaxCalls == 3       \* ProgressLogger calls in a free sequence of calls
MaxTotal == 2       \* largest total given to a free ProgressLogger

----------------------------------------------------------------------------
(* Strings *)

NoneVal == -1       \* Python's None where an int is expected

StartsWith(s, pre) == Len(pre) <= Len(s) /\ SubSeq(s, 1, Len(pre)) = pre

\* str.endswith, which `*<ext>` amounts to on a file name
EndsWith(s, suf) ==
    Len(suf) <= Len(s) /\ SubSeq(s, Len(s) - Len(suf) + 1, Len(s)) = suf

\* `sub in s` for str
Contains(s, sub) ==
    \E i \in 0..(Len(s) - Len(sub)) : SubSeq(s, i + 1, i + Len(sub)) = sub

\* index of the first `c` in s, or Len(s)+1
RECURSIVE IndexOf(_, _)
IndexOf(s, c) ==
    IF s = <<>> \/ Head(s) = c THEN 1 ELSE 1 + IndexOf(Tail(s), c)

\* str.split(sep) for a one-character separator, on a non-empty relative path
RECURSIVE Split(_, _)
Split(s, sep) ==
    LET i == IndexOf(s, sep) IN
    IF i > Len(s) THEN <<s>>
    ELSE <<SubSeq(s, 1, i - 1)>> \o Split(SubSeq(s, i + 1, Len(s)), sep)

Range(seq) == {seq[i] : i \in 1..Len(seq)}

RECURSIVE SumSeq(_)
SumSeq(s) == IF s = <<>> THEN 0 ELSE Head(s) + SumSeq(Tail(s))

----------------------------------------------------------------------------
(* fnmatch and pathlib *)

\* fnmatch.fnmatchcase(name, pat) for patterns made of literals, `*` and `?`
RECURSIVE fnmatchcase(_, _)
fnmatchcase(name, pat) ==
    IF pat = <<>> THEN name = <<>>
    ELSE IF Head(pat) = "*"
         THEN \/ fnmatchcase(name, Tail(pat))
              \/ name # <<>> /\ fnmatchcase(Tail(name), pat)
    ELSE IF name = <<>> THEN FALSE
    ELSE /\ (Head(pat) = "?" \/ Head(pat) = Head(name))
         /\ fnmatchcase(Tail(name), Tail(pat))

\* str(file_path) of an entry yielded by root_path.glob(...)
PathStr(r, f) == r \o <<"/">> \o f.rel

\* file_path.parts
PathParts(r, f) == Split(PathStr(r, f), "/")

\* file_path.name
Name(f) == LET parts == Split(f.rel, "/") IN parts[Len(parts)]

\* PurePath.match(pattern) for a relative pattern: the pattern's components are
\* matched against the path's last components, from the right
PathMatch(parts, pattern) ==
    LET pat == Split(pattern, "/")
        n == Len(parts)
        m == Len(pat)
    IN /\ m <= n
       /\ \A i \in 1..m : fnmatchcase(parts[n - m + i], pat[i])

\* list(root_path.glob(f"**/*{ext}")): every entry below root, at any depth,
\* directories included, whose name ends with ext
Glob(t, ext) == {f \in t : EndsWith(Name(f), ext)}

\* variant: the exclude-dir strings compared with whole path components
ExcludedByDirSegment(r, f, exdirs) ==
    \E i \in 1..Len(exdirs) : exdirs[i] \in Range(PathParts(r, f))

\* the two `continue` tests of analyze_repo
ExcludedByDir(r, f, exdirs) ==
    \E i \in 1..Len(exdirs) : Contains(PathStr(r, f), exdirs[i])

ExcludedByFile(r, f, exfiles) ==
    \E i \in 1..Len(exfiles) : PathMatch(PathParts(r, f), exfiles[i])

IsExcluded(r, f, exdirs, exfiles) ==
    ExcludedByDir(r, f, exdirs) \/ ExcludedByFile(r, f, exfiles)

----------------------------------------------------------------------------
(* count_lines *)

Whitespace == {" ", "\t", "\n"}

\* variant: `if line` in place of `if line.strip()`
StripNothing(s) == s

\* str.strip()
RECURSIVE LStrip(_)
LStrip(s) == IF s # <<>> /\ Head(s) \in Whitespace THEN LStrip(Tail(s)) ELSE s

RECURSIVE RStrip(_)
RStrip(s) ==
    IF s # <<>> /\ s[Len(s)] \in Whitespace THEN RStrip(SubSeq(s, 1, Len(s) - 1)) ELSE s

Strip(s) == RStrip(LStrip(s))

\* `for line in f`: the lines of a text file, each with its newline kept
RECURSIVE FileLines(_)
FileLines(content) ==
    IF content = <<>> THEN <<>>
    ELSE LET i == IndexOf(content, "\n") IN
         IF i > Len(content) THEN <<content>>
         ELSE <<SubSeq(content, 1, i)>> \o FileLines(SubSeq(content, i + 1, Len(content)))

\* sum(1 for line in f if line.strip())
RECURSIVE CountNonBlank(_)
CountNonBlank(lines) ==
    IF lines = <<>> THEN 0
    ELSE (IF Strip(Head(lines)) # <<>> THEN 1 ELSE 0) + CountNonBlank(Tail(lines))

\* variant: only UnicodeDecodeError is caught
count_lines_decode_only(f) ==
    IF f.kind = "text" THEN [raised |-> FALSE, value |-> CountNonBlank(FileLines(f.content))]
    ELSE IF f.kind = "binary" THEN [raised |-> FALSE, value |-> 0]
    ELSE [raised |-> TRUE, value |-> 0]

\* count_lines(file_path): what the call does, [raised, value].  kind "text": the
\* file decodes as UTF-8; "binary": UnicodeDecodeError; "unreadable": any other
\* Exception of open/read (PermissionError, IsADirectoryError, ...)
count_lines(f) ==
    IF f.kind = "text" THEN [raised |-> FALSE, value |-> CountNonBlank(FileLines(f.content))]
    ELSE IF f.kind = "binary" THEN [raised |-> FALSE, value |-> 0]
    ELSE [raised |-> FALSE, value |-> 0]

----------------------------------------------------------------------------
(* defaultdict(int), as a list of <<key, value>> in insertion order *)

Keys(d) == {d[i][1] : i \in 1..Len(d)}

Values(d) == [i \in 1..Len(d) |-> d[i][2]]

HasKey(d, k) == \E i \in 1..Len(d) : d[i][1] = k

\* d[k] without the insertion a defaultdict makes for a missing key
DictGet(d, k) ==
    IF HasKey(d, k) THEN d[CHOOSE i \in 1..Len(d) : d[i][1] = k][2] ELSE 0

\* d[k] += n
DictAdd(d, k, n) ==
    IF HasKey(d, k)
    THEN [i \in 1..Len(d) |-> IF d[i][1] = k THEN <<k, d[i][2] + n>> ELSE d[i]]
    ELSE Append(d, <<k, n>>)

\* the dictionary after reading d[k] (a defaultdict inserts a missing key)
DictTouch(d, k) == IF HasKey(d, k) THEN d ELSE Append(d, <<k, 0>>)

----------------------------------------------------------------------------
(* The strings of the configurations and trees explored *)

S_project == <<"p", "r", "o", "j", "e", "c", "t">>
S_dist == <<"d", "i", "s", "t">>
E_dart == <<"d", "a", "r", "t">>
E_py == <<".", "p", "y">>
E_js == <<".", "j", "s">>
E_jsx == <<".", "j", "s", "x">>
E_ts == <<".", "t", "s">>
E_tsx == <<".", "t", "s", "x">>
E_java == <<".", "j", "a", "v", "a">>
E_cpp == <<".", "c", "p", "p">>
E_h == <<".", "h">>
E_css == <<".", "c", "s", "s">>
E_scss == <<".", "s", "c", "s", "s">>
E_py_nodot == <<"p", "y">>
D_node_modules == <<"n", "o", "d", "e", "_", "m", "o", "d", "u", "l", "e", "s">>
D_dist == <<"d", "i", "s", "t">>
D_build == <<"b", "u", "i", "l", "d">>
D_venv == <<"v", "e", "n", "v">>
D_git == <<".", "g", "i", "t">>
D_pycache == <<"_", "_", "p", "y", "c", "a", "c", "h", "e", "_", "_">>
D_generated == <<"g", "e", "n", "e", "r", "a", "t", "e", "d">>
P_min_js == <<"*", ".", "m", "i", "n", ".", "j", "s">>
P_min_css == <<"*", ".", "m", "i", "n", ".", "c", "s", "s">>
P_map == <<"*", ".", "m", "a", "p">>
P_pyc == <<"*", ".", "p", "y", "c">>
P_g_dart == <<"*", ".", "g", ".", "d", "a", "r", "t">>
P_src_js == <<"s", "r", "c", "/", "*", ".", "j", "s">>

\* the defaults of analyze_repo
DefaultExcludeDirs ==
    <<D_node_modules, D_dist, D_build, D_venv, D_git, D_pycache, D_generated>>

DefaultExcludeFiles == <<P_min_js, P_min_css, P_map, P_pyc, P_g_dart>>

DefaultIncludeExtensions ==
    <<E_dart, E_py, E_js, E_jsx, E_ts, E_tsx, E_java, E_cpp, E_h, E_css, E_scss>>

\* what the caller may pass instead
IncludeLists == {DefaultIncludeExtensions, <<E_py>>, <<E_py_nodot, E_py>>, <<E_js, E_py>>}

ExcludeDirLists == {DefaultExcludeDirs, <<>>, <<D_build>>}

ExcludeFileLists == {DefaultExcludeFiles, <<>>, <<P_src_js>>}

Roots == {S_project, S_dist}

\* the entries a tree is drawn from: path below root, outcome of reading, content
File(rel, kind, content) == [rel |-> rel, kind |-> kind, content |-> content]

F_a == File(<<"a", ".", "p", "y">>, "text", <<"x", "\n", "x", "\n", "\n", "x", "\n">>)
F_b == File(<<"b", ".", "p", "y">>, "text", <<>>)
F_lib == File(<<"n", "o", "d", "e", "_", "m", "o", "d", "u", "l", "e", "s", "/", "l", "i", "b", ".", "j", "s">>, "text", <<"x", "\n">>)
F_min == File(<<"c", ".", "m", "i", "n", ".", "j", "s">>, "text", <<"x", "\n", " ", "x", "\n">>)
F_bin == File(<<"e", ".", "p", "y">>, "binary", <<>>)
F_dir == File(<<"r", "e", "b", "u", "i", "l", "d", ".", "p", "y">>, "unreadable", <<>>)
F_src == File(<<"s", "r", "c", "/", "x", ".", "j", "s">>, "text", <<"x", "\n">>)
F_tool == File(<<"m", "y", "-", "b", "u", "i", "l", "d", "-", "t", "o", "o", "l", "s", "/", "t", ".", "j", "s">>, "text", <<" ", "x">>)
F_dart == File(<<"a", "d", "a", "r", "t">>, "text", <<"x">>)

Universe == {F_a, F_b, F_lib, F_min, F_bin, F_dir, F_src, F_tool, F_dart}

Trees == {t \in SUBSET Universe : Cardinality(t) <= MaxFiles}

----------------------------------------------------------------------------
(* ProgressLogger *)

update_interval == 2    \* 0.1 s, in ticks of 50 ms

width == 30             \* _create_progress_bar's default width

\* round(n / d) to the nearest integer, ties to even: what '.1f' prints of a
\* quotient whose tenths are n / d (exact for the denominators explored)
RoundHalfEven(n, d) ==
    LET q == n \div d
        r == n % d
    IN IF 2 * r > d \/ (2 * r = d /\ q % 2 = 1) THEN q + 1 ELSE q

\* __init__(total) at clock reading t
ProgressLogger(total, t) ==
    [total |-> total, current |-> 0, start_time |-> t, last_update |-> t]

\* lines 19-22
SetCurrent(p, current) ==
    [p EXCEPT !.current = IF current # NoneVal THEN current ELSE @ + 1]

\* variant: `>` in place of `>=`
ShouldRedrawLater(p, current_time, force) ==
    force \/ (current_time - p.last_update) > update_interval

\* the test of line 25
ShouldRedraw(p, current_time, force) ==
    force \/ (current_time - p.last_update) >= update_interval

\* int(width * percentage / 100) in floating point: the exact floor, or one
\* less where the exact quotient is an integer that the rounding of
\* current / total * 100 falls just short of
FilledWidths(current, total) ==
    LET q == (width * current) \div total IN
    IF (width * current) % total = 0 /\ current % total # 0 THEN {q - 1, q} ELSE {q}

\* _print_progress: the lines it may write.  pct is the percentage in tenths
PrintProgress(p) ==
    IF p.total # NoneVal /\ p.total # 0
    THEN {[kind |-> "bar", filled |-> w, pct |-> RoundHalfEven(p.current * 1000, p.total),
           current |-> p.current, total |-> p.total] :
            w \in FilledWidths(p.current, p.total)}
    ELSE {[kind |-> "count", filled |-> 0, pct |-> 0,
           current |-> p.current, total |-> p.total]}

NoLine == [kind |-> "none", filled |-> 0, pct |-> 0, current |-> 0, total |-> 0]

NoCall == [n |-> 0, current |-> NoneVal, force |-> FALSE, redrawAt |-> NoneVal]

\* time.time(): the clock does not run backwards and is read up to `last`
ReadClock(last) == \E d \in 0..update_interval : now + d <= last /\ now' = now + d

\* update(current, force), lines 18-27
Update(current, force, last) ==
    /\ ReadClock(last)
    /\ LET q == SetCurrent(progress, current)
           redraw == ShouldRedraw(q, now', force)
       IN /\ progress' = IF redraw THEN [q EXCEPT !.last_update = now'] ELSE q
          /\ IF redraw
             THEN /\ \E line \in PrintProgress(q) : shown' = line
                  /\ writes' = writes + 1
             ELSE UNCHANGED <<shown, writes>>
          /\ lastCall' = [n |-> lastCall.n + 1, current |-> current, force |-> force,
                          redrawAt |-> IF redraw THEN now' ELSE lastCall.redrawAt]

----------------------------------------------------------------------------
(* analyze_repo *)

\* variant: `total =` in place of `total +=`
get_total_files_last(t, exts) ==
    IF exts = <<>> THEN 0 ELSE Cardinality(Glob(t, exts[Len(exts)]))

\* get_total_files(root_dir, include_extensions)
RECURSIVE get_total_files(_, _)
get_total_files(t, exts) ==
    IF exts = <<>> THEN 0
    ELSE Cardinality(Glob(t, Head(exts))) + get_total_files(t, Tail(exts))

\* the candidates of the ext loop's i-th round
Candidates(i) ==
    IF i <= Len(include_extensions) THEN Glob(tree, include_extensions[i]) ELSE {}

\* stats[ext] += lines
AddLines(st, ext, lines) == DictAdd(st, ext, lines)

\* variant: only files with lines are counted as files
AddFileWithLines(fc, ext, lines) == IF lines > 0 THEN DictAdd(fc, ext, 1) ELSE fc

\* file_counts[ext] += 1
AddFile(fc, ext, lines) == DictAdd(fc, ext, 1)

\* lines 88-95: the counters, the total and the progress logger
Start ==
    /\ pc = "start"
    /\ stats' = <<>>
    /\ file_counts' = <<>>
    /\ ReadClock(MaxClock)
    /\ progress' = ProgressLogger(get_total_files(tree, include_extensions), now')
    /\ extIdx' = 1
    /\ pending' = Candidates(1)
    /\ pc' = "scan"
    /\ UNCHANGED <<root, tree, exclude_dirs, exclude_files, include_extensions,
                   writes, shown, processed, lastCall, report, arg, ret>>

\* variant: the bucket of an excluded candidate is read before the `continue`,
\* which makes the defaultdict insert its key
SkipTouchingStats ==
    /\ pc = "scan"
    /\ \E f \in pending :
        /\ IsExcluded(root, f, exclude_dirs, exclude_files)
        /\ pending' = pending \ {f}
    /\ stats' = DictTouch(stats, include_extensions[extIdx])
    /\ UNCHANGED <<root, tree, exclude_dirs, exclude_files, include_extensions, pc,
                   extIdx, file_counts, progress, now, writes, shown,
                   processed, lastCall, report, arg, ret>>

\* lines 102-108: the next candidate is excluded
Skip ==
    /\ pc = "scan"
    /\ \E f \in pending :
        /\ IsExcluded(root, f, exclude_dirs, exclude_files)
        /\ pending' = pending \ {f}
    /\ UNCHANGED <<root, tree, exclude_dirs, exclude_files, include_extensions, pc,
                   extIdx, stats, file_counts, progress, now, writes, shown,
                   processed, lastCall, report, arg, ret>>

\* lines 102-117: the next candidate is counted
Count ==
    /\ pc = "scan"
    /\ \E f \in pending :
        /\ ~IsExcluded(root, f, exclude_dirs, exclude_files)
        /\ pending' = pending \ {f}
        /\ LET ext == include_extensions[extIdx]
               r == count_lines(f)
           IN IF r.raised
              THEN /\ pc' = "aborted"
                   /\ UNCHANGED <<stats, file_counts, progress, now, writes, shown,
                                  processed, lastCall>>
              ELSE /\ stats' = AddLines(stats, ext, r.value)
                   /\ file_counts' = AddFile(file_counts, ext, r.value)
                   /\ processed' = Append(processed, <<ext, f.rel>>)
                   /\ Update(NoneVal, FALSE, MaxClock)
                   /\ pc' = pc
    /\ UNCHANGED <<root, tree, exclude_dirs, exclude_files, include_extensions,
                   extIdx, report, arg, ret>>

\* line 97: the glob of one extension is exhausted, the next one starts
NextExt ==
    /\ pc = "scan"
    /\ pending = {}
    /\ extIdx < Len(include_extensions)
    /\ extIdx' = extIdx + 1
    /\ pending' = Candidates(extIdx + 1)
    /\ UNCHANGED <<root, tree, exclude_dirs, exclude_files, include_extensions, pc,
                   stats, file_counts, progress, now, writes, shown, processed,
                   lastCall, report, arg, ret>>

\* lines 119-122: progress.finish() and the return
Finish ==
    /\ pc = "scan"
    /\ pending = {}
    /\ extIdx >= Len(include_extensions)
    /\ ReadClock(MaxClock)
    /\ pc' = "done"
    /\ UNCHANGED <<root, tree, exclude_dirs, exclude_files, include_extensions,
                   extIdx, pending, stats, file_counts, progress, writes, shown,
                   processed, lastCall, report, arg, ret>>

----------------------------------------------------------------------------
(* format_results *)

\* a / b in Python: ZeroDivisionError for b = 0; otherwise the quotient, kept as
\* the tenths that '.1f' prints
Divide(n, d) ==
    IF d = 0 THEN [raised |-> TRUE, tenths |-> 0]
    ELSE [raised |-> FALSE, tenths |-> RoundHalfEven(n * 10, d)]

\* variant: the percentage without its guard
PercentageUnguarded(lines, total_lines) == Divide(lines * 100, total_lines)

\* (lines / total_lines) * 100 if total_lines > 0 else 0
Percentage(lines, total_lines) ==
    IF total_lines > 0 THEN Divide(lines * 100, total_lines)
    ELSE [raised |-> FALSE, tenths |-> 0]

\* lines / files if files > 0 else 0
AvgLines(lines, files) ==
    IF files > 0 THEN Divide(lines, files) ELSE [raised |-> FALSE, tenths |-> 0]

\* where a stable descending sort puts x among the already sorted items s
InsertDesc(s, x) ==
    LET k == Cardinality({i \in 1..Len(s) : s[i][2] >= x[2]}) IN
    SubSeq(s, 1, k) \o <<x>> \o SubSeq(s, k + 1, Len(s))

\* variant: the items in insertion order
UnsortedItems(items) == items

\* sorted(stats.items(), key=lambda x: x[1], reverse=True)
RECURSIVE SortedItems(_)
SortedItems(items) ==
    IF items = <<>> THEN <<>>
    ELSE InsertDesc(SortedItems(SubSeq(items, 1, Len(items) - 1)), items[Len(items)])

\* one line of the breakdown, line 137-140
Row(item, fc, total_lines) ==
    LET files == DictGet(fc, item[1])
        percentage == Percentage(item[2], total_lines)
        avg_lines == AvgLines(item[2], files)
    IN [ext |-> item[1], lines |-> item[2], files |-> files,
        pct |-> percentage.tenths, avg |-> avg_lines.tenths,
        raised |-> percentage.raised \/ avg_lines.raised]

\* file_counts after the loop has read file_counts[ext] for each key of stats
RECURSIVE TouchAll(_, _)
TouchAll(fc, items) ==
    IF items = <<>> THEN fc ELSE TouchAll(DictTouch(fc, Head(items)[1]), Tail(items))

\* format_results(stats, file_counts): the totals, and the rows written before
\* the first exception, if any
format_results(st, fc) ==
    LET total_lines == SumSeq(Values(st))
        total_files == SumSeq(Values(fc))
        items == SortedItems(st)
        rows == [i \in 1..Len(items) |-> Row(items[i], fc, total_lines)]
        bad == {i \in 1..Len(rows) : rows[i].raised}
        n == IF bad = {} THEN Len(rows)
             ELSE (CHOOSE i \in bad : \A j \in bad : i <= j) - 1
    IN [raised |-> bad # {},
        total_lines |-> total_lines,
        total_files |-> total_files,
        rows |-> SubSeq(rows, 1, n)]

NoReport == [raised |-> FALSE, total_lines |-> 0, total_files |-> 0, rows |-> <<>>]

\* line 162: print(format_results(stats, file_counts))
Format ==
    /\ pc = "done"
    /\ report' = format_results(stats, file_counts)
    /\ file_counts' = TouchAll(file_counts, SortedItems(stats))
    /\ pc' = "reported"
    /\ UNCHANGED <<root, tree, exclude_dirs, exclude_files, include_extensions,
                   extIdx, pending, stats, progress, now, writes, shown, processed,
                   lastCall, arg, ret>>

----------------------------------------------------------------------------
(* The run of the script *)

Init ==
    /\ root \in Roots
    /\ tree \in Trees
    /\ exclude_dirs \in ExcludeDirLists
    /\ exclude_files \in ExcludeFileLists
    /\ include_extensions \in IncludeLists
    /\ pc = "start"
    /\ extIdx = 0
    /\ pending = {}
    /\ stats = <<>>
    /\ file_counts = <<>>
    /\ progress = ProgressLogger(NoneVal, 0)
    /\ now = 0
    /\ writes = 0
    /\ shown = NoLine
    /\ processed = <<>>
    /\ lastCall = NoCall
    /\ report = NoReport
    /\ arg = File(<<>>, "text", <<>>)
    /\ ret = NoneVal

Next == Start \/ Skip \/ Count \/ NextExt \/ Finish \/ Format

Spec == Init /\ [][Next]_vars

----------------------------------------------------------------------------
(* count_lines on its own: every short file over a small alphabet *)

Alphabet == {"x", " ", "\n"}

Contents == UNION {[1..n -> Alphabet] : n \in 0..MaxLen}

Readings ==
    {File(<<"f">>, "text", c) : c \in Contents}
        \cup {File(<<"f">>, "binary", <<>>), File(<<"f">>, "unreadable", <<>>)}

InitCount ==
    /\ root = S_project
    /\ tree = {}
    /\ exclude_dirs = <<>>
    /\ exclude_files = <<>>
    /\ include_extensions = <<>>
    /\ pc = "count"
    /\ extIdx = 0
    /\ pending = {}
    /\ stats = <<>>
    /\ file_counts = <<>>
    /\ progress = ProgressLogger(NoneVal, 0)
    /\ now = 0
    /\ writes = 0
    /\ shown = NoLine
    /\ processed = <<>>
    /\ lastCall = NoCall
    /\ report = NoReport
    /\ arg \in Readings
    /\ ret = NoneVal

\* lines = count_lines(file_path)
CallCountLines ==
    /\ pc = "count"
    /\ LET r == count_lines(arg) IN
        IF r.raised THEN pc' = "aborted" /\ ret' = ret
        ELSE pc' = "counted" /\ ret' = r.value
    /\ UNCHANGED <<root, tree, exclude_dirs, exclude_files, include_extensions,
                   extIdx, pending, stats, file_counts, progress, now, writes,
                   shown, processed, lastCall, report, arg>>

SpecCount == InitCount /\ [][CallCountLines]_vars

----------------------------------------------------------------------------
(* format_results on its own: every pair of small mappings *)

FormatExts == {E_py, E_js, E_dart}

KeyLists ==
    {ks \in UNION {[1..n -> FormatExts] : n \in 0..Cardinality(FormatExts)} :
        \A i, j \in 1..Len(ks) : i # j => ks[i] # ks[j]}

Dicts(maxValue) ==
    UNION {{[i \in 1..Len(ks) |-> <<ks[i], v[i]>>] : v \in [1..Len(ks) -> 0..maxValue]} :
            ks \in KeyLists}

InitFormat ==
    /\ root = S_project
    /\ tree = {}
    /\ exclude_dirs = <<>>
    /\ exclude_files = <<>>
    /\ include_extensions = <<>>
    /\ pc = "done"
    /\ extIdx = 0
    /\ pending = {}
    /\ stats \in Dicts(MaxLines)
    /\ file_counts \in Dicts(MaxCount)
    /\ progress = ProgressLogger(NoneVal, 0)
    /\ now = 0
    /\ writes = 0
    /\ shown = NoLine
    /\ processed = <<>>
    /\ lastCall = NoCall
    /\ report = NoReport
    /\ arg = File(<<>>, "text", <<>>)
    /\ ret = NoneVal

SpecFormat == InitFormat /\ [][Format]_vars

----------------------------------------------------------------------------
(* ProgressLogger on its own: every short sequence of calls *)

InitLogger ==
    /\ root = S_project
    /\ tree = {}
    /\ exclude_dirs = <<>>
    /\ exclude_files = <<>>
    /\ include_extensions = <<>>
    /\ pc = "logger"
    /\ extIdx = 0
    /\ pending = {}
    /\ stats = <<>>
    /\ file_counts = <<>>
    /\ \E total \in {NoneVal} \cup 0..MaxTotal : progress = ProgressLogger(total, 0)
    /\ now = 0
    /\ writes = 0
    /\ shown = NoLine
    /\ processed = <<>>
    /\ lastCall = NoCall
    /\ report = NoReport
    /\ arg = File(<<>>, "text", <<>>)
    /\ ret = NoneVal

\* progress.update(current, force) with any arguments
CallUpdate ==
    /\ pc = "logger"
    /\ lastCall.n < MaxCalls
    /\ \E current \in {NoneVal} \cup 0..MaxTotal, force \in BOOLEAN :
        Update(current, force, MaxLoggerClock)
    /\ UNCHANGED <<root, tree, exclude_dirs, exclude_files, include_extensions, pc,
                   extIdx, pending, stats, file_counts, processed, report, arg, ret>>

\* progress.finish()
CallFinish ==
    /\ pc = "logger"
    /\ ReadClock(MaxLoggerClock)
    /\ pc' = "finished"
    /\ UNCHANGED <<root, tree, exclude_dirs, exclude_files, include_extensions,
                   extIdx, pending, stats, file_counts, progress, writes, shown,
                   processed, lastCall, report, arg, ret>>

NextLogger == CallUpdate \/ CallFinish

SpecLogger == InitLogger /\ [][NextLogger]_vars

----------------------------------------------------------------------------
(* Properties of analyze_repo *)

Finished == pc \in {"done", "reported"}

AllExtensions == UNION {Range(l) : l \in IncludeLists}

\* which names end with which extension, and which entries a configuration
\* excludes, tabulated once over the entries and configurations explored
NameEnds == [f \in Universe |-> {e \in AllExtensions : EndsWith(Name(f), e)}]

Excluded ==
    [r \in Roots |-> [d \in ExcludeDirLists |-> [p \in ExcludeFileLists |->
        {f \in Universe : IsExcluded(r, f, d, p)}]]]

\* the candidates the i-th extension enumerates, and the non-excluded ones
Enumerated(i) == {f \in tree : include_extensions[i] \in NameEnds[f]}

Counted(i) == Enumerated(i) \ Excluded[root][exclude_dirs][exclude_files]

\* the files that match some included extension and are not excluded, as a set
IncludedFiles == UNION {Counted(i) : i \in 1..Len(include_extensions)}

RECURSIVE SumLines(_)
SumLines(S) ==
    IF S = {} THEN 0
    ELSE LET f == CHOOSE g \in S : TRUE IN count_lines(f).value + SumLines(S \ {f})

\* C1: when analyze_repo returns, the sum of the per-extension line counts equals
\* the sum of count_lines(f) over the set of included, non-excluded files, each
\* file taken once.
C1_SumOverFileSet ==
    Finished => SumSeq(Values(stats)) = SumLines(IncludedFiles)

\* C2: every processed file contributes exactly once to exactly one extension
\* bucket: no file is counted under two extensions or twice under one.
C2_EachFileOnce ==
    \A i, j \in 1..Len(processed) : i # j => processed[i][2] # processed[j][2]

\* the exclusion rule: some exclude-dir string is a substring of the full path
\* string, or the last components of the path match an exclude-file glob
\* component by component
DirRule(f) ==
    LET path == PathStr(root, f) IN
    \E i \in 1..Len(exclude_dirs) : \E k \in 0..Len(path) :
        StartsWith(SubSeq(path, k + 1, Len(path)), exclude_dirs[i])

GlobRule(f) ==
    LET parts == Split(PathStr(root, f), "/") IN
    \E i \in 1..Len(exclude_files) :
        LET pat == Split(exclude_files[i], "/") IN
        /\ Len(pat) <= Len(parts)
        /\ \A j \in 1..Len(pat) :
            fnmatchcase(parts[Len(parts) - Len(pat) + j], pat[j])

\* the rule with the glob applied to the file's name alone
NameRule(f) ==
    \E i \in 1..Len(exclude_files) : fnmatchcase(Name(f), exclude_files[i])

\* a step of the glob loop that consumes one candidate
Consumes(f) == pc = "scan" /\ f \in pending /\ pending' = pending \ {f}

Untouched == stats' = stats /\ file_counts' = file_counts /\ progress' = progress

DefaultConfiguration ==
    /\ exclude_dirs = DefaultExcludeDirs
    /\ exclude_files = DefaultExcludeFiles
    /\ include_extensions = DefaultIncludeExtensions

\* C3 (as amended): a candidate is skipped, adding nothing to stats, file_counts
\* or progress, exactly when some exclude-dir string is a substring of its full
\* path string or the last components of its path match some exclude-file glob
\* component by component (its name alone for a glob without "/"); and
\* node_modules/lib.js is never counted under the default configuration.
C3_ExclusionRule ==
    /\ [][\A f \in pending : Consumes(f) => ((DirRule(f) \/ GlobRule(f)) <=> Untouched)]_vars
    /\ [](DefaultConfiguration =>
            \A i \in 1..Len(processed) : processed[i][2] # F_lib.rel)

\* C3 as stated: skipped exactly when some exclude-dir string is a substring of
\* the full path string or the file's name matches some exclude-file glob.
C3_NameOnlyRule ==
    [][\A f \in pending : Consumes(f) => ((DirRule(f) \/ NameRule(f)) <=> Untouched)]_vars

\* a file with an included extension has been skipped for a glob alone, and one
\* below node_modules has been skipped under the defaults
C3_Witness ==
    /\ pc = "scan"
    /\ exclude_dirs = <<>>
    /\ exclude_files = <<P_src_js>>
    /\ include_extensions[extIdx] = E_js
    /\ F_src \in tree \ pending
    /\ F_tool \in tree \ pending
    /\ processed = <<<<E_js, F_tool.rel>>>>

\* C4: one unreadable file never aborts the scan: count_lines gives 0 without
\* raising on a decode failure and on any other read failure, and analyze_repo
\* still processes every non-excluded candidate and returns.
C4_ScanSurvivesUnreadable ==
    /\ pc # "aborted"
    /\ \A i \in 1..Len(processed) :
        \A f \in tree :
            (f.rel = processed[i][2] /\ f.kind # "text") =>
                /\ HasKey(stats, processed[i][1])
                /\ (\A j \in 1..Len(processed) :
                        processed[j][1] = processed[i][1] => processed[j][2] = f.rel)
                    => DictGet(stats, processed[i][1]) = 0
    /\ Finished =>
        \A i \in 1..Len(include_extensions) : \A f \in Counted(i) :
            <<include_extensions[i], f.rel>> \in Range(processed)

\* the scan has returned after counting a text file that came after a file that
\* could not be read
C4_Witness ==
    /\ pc = "done"
    /\ tree = {F_dir, F_a}
    /\ processed = <<<<E_py, F_dir.rel>>, <<E_py, F_a.rel>>>>
    /\ stats = <<<<E_py, 3>>>>

\* the candidates counted for an extension, over every place it has in the list
RECURSIVE CountedFor(_, _)
CountedFor(ext, i) ==
    IF i = 0 THEN 0
    ELSE (IF include_extensions[i] = ext THEN Cardinality(Counted(i)) ELSE 0)
            + CountedFor(ext, i - 1)

\* C8: the per-extension file count equals the number of non-excluded candidates
\* enumerated for that extension whatever the outcome of reading them: an empty
\* file and a file that fails to decode or read each add 1 to file_counts[ext]
\* and 0 to stats[ext]; a.py (3 non-blank lines) and an empty b.py give
\* {'.py': 3} and {'.py': 2}.
C8_FileCountIgnoresReadOutcome ==
    /\ Finished =>
        \A i \in 1..Len(include_extensions) :
            DictGet(file_counts, include_extensions[i])
                = CountedFor(include_extensions[i], Len(include_extensions))
    /\ (pc = "scan" /\ extIdx >= 1) =>
        LET ext == include_extensions[extIdx]
            done == {f \in Counted(extIdx) \ pending : f.kind # "text" \/ f.content = <<>>}
        IN (done = Counted(extIdx) \ pending /\ done # {}
                /\ \A j \in 1..(extIdx - 1) : include_extensions[j] # ext)
            => /\ DictGet(file_counts, ext) = Cardinality(done)
               /\ DictGet(stats, ext) = 0
    /\ (Finished /\ tree = {F_a, F_b} /\ include_extensions = <<E_py>>
            /\ exclude_dirs = <<>> /\ exclude_files = <<>>) =>
        /\ stats = <<<<E_py, 3>>>>
        /\ file_counts = <<<<E_py, 2>>>>

\* an empty file and a file that does not decode have both been counted
C8_Witness ==
    /\ pc = "done"
    /\ tree = {F_b, F_bin}
    /\ include_extensions = <<E_py>>
    /\ stats = <<<<E_py, 0>>>>
    /\ file_counts = <<<<E_py, 2>>>>

\* the candidates of all extensions, counted for each extension they match
RECURSIVE CandidateTotal(_)
CandidateTotal(i) ==
    IF i = 0 THEN 0
    ELSE Cardinality(Enumerated(i)) + CandidateTotal(i - 1)

SomeExcluded ==
    \E i \in 1..Len(include_extensions) : Counted(i) # Enumerated(i)

----------------------------------------------------------------------------
(* Properties of count_lines *)

\* position i holds the first non-whitespace character of its line
FirstInk(c, i) ==
    /\ c[i] \notin Whitespace
    /\ \A j \in 1..(i - 1) :
        c[j] \in Whitespace \/ \E k \in j..(i - 1) : c[k] = "\n"

\* C5: for a readable text file count_lines returns the number of lines that
\* are non-empty once leading and trailing whitespace is stripped; 0 for an
\* empty file and for one holding only blank or whitespace-only lines.
C5_CountsNonBlankLines ==
    (pc = "counted" /\ arg.kind = "text") =>
        /\ ret = Cardinality({i \in 1..Len(arg.content) : FirstInk(arg.content, i)})
        /\ Range(arg.content) \subseteq Whitespace => ret = 0

\* a file of one non-blank line and one whitespace-only line has been counted
C5_Witness ==
    /\ pc = "counted"
    /\ arg.kind = "text"
    /\ arg.content = <<"x", "\n", " ", "\n">>
    /\ ret = 1

----------------------------------------------------------------------------
(* Properties of format_results *)

\* C6: format_results never fails with a division by zero: empty mappings give
\* total lines 0, total files 0 and no rows; when the total line count is 0
\* every row's percentage is 0; an extension with 0 files gets average 0.
C6_NoDivisionByZero ==
    pc = "reported" =>
        /\ ~report.raised
        /\ Len(report.rows) = Len(stats)
        /\ stats = <<>> /\ file_counts = <<>> =>
            report.total_lines = 0 /\ report.total_files = 0 /\ report.rows = <<>>
        /\ \A i \in 1..Len(report.rows) :
            /\ (\A j \in 1..Len(stats) : stats[j][2] = 0) => report.rows[i].pct = 0
            /\ (\A j \in 1..Len(file_counts) :
                    file_counts[j][1] = report.rows[i].ext => file_counts[j][2] = 0)
                => report.rows[i].avg = 0

\* rows have been written for extensions without lines and without files
C6_Witness ==
    /\ pc = "reported"
    /\ Len(report.rows) = 2
    /\ report.total_lines = 0
    /\ report.rows[1].files = 0
    /\ report.rows[2].files > 0

\* t tenths is the quotient n / d rounded to tenths
NearestTenth(t, n, d) == 2 * (t * d - 10 * n) <= d /\ 2 * (10 * n - t * d) <= d

\* C7: format_results writes exactly one row per key of stats, in non-increasing
\* order of line count, each with percentage lines/total_lines*100 and average
\* lines/files; {'.py': 3} with {'.py': 2} gives one row, 100.0% and 1.5.
C7_RowsSortedAndScaled ==
    pc = "reported" =>
        LET rows == report.rows IN
        /\ Len(rows) = Len(stats)
        /\ \A k \in 1..Len(stats) :
            Cardinality({i \in 1..Len(rows) :
                rows[i].ext = stats[k][1] /\ rows[i].lines = stats[k][2]}) = 1
        /\ \A i \in 1..(Len(rows) - 1) : rows[i].lines >= rows[i + 1].lines
        /\ \A i \in 1..Len(rows) :
            /\ report.total_lines > 0 =>
                NearestTenth(rows[i].pct, rows[i].lines * 100, report.total_lines)
            /\ rows[i].files = DictGet(file_counts, rows[i].ext)
            /\ rows[i].files > 0 => NearestTenth(rows[i].avg, rows[i].lines, rows[i].files)
        /\ (stats = <<<<E_py, 3>>>> /\ file_counts = <<<<E_py, 2>>>>) =>
            /\ Len(rows) = 1
            /\ rows[1].pct = 1000
            /\ rows[1].avg = 15

\* the report of {'.py': 3} and {'.py': 2} has been written
C7_Witness ==
    /\ pc = "reported"
    /\ stats = <<<<E_py, 3>>>>
    /\ file_counts = <<<<E_py, 2>>>>
    /\ report.rows[1].pct = 1000
    /\ report.rows[1].avg = 15

----------------------------------------------------------------------------
(* Properties of ProgressLogger.update *)

\* the step is a call of update
IsUpdate == lastCall'.n = lastCall.n + 1

Redraws == writes' = writes + 1

\* the throttle: a call redraws exactly when it is forced or update_interval
\* has elapsed since the previous redraw (or construction); last_update moves
\* only on a redraw, to the time of the call; a redraw by a non-forced call is
\* at least update_interval after the redraw before it
Throttle ==
    IsUpdate =>
        /\ writes' \in {writes, writes + 1}
        /\ Redraws <=> (lastCall'.force \/ now' - progress.last_update >= update_interval)
        /\ progress'.last_update = IF Redraws THEN now' ELSE progress.last_update
        /\ (Redraws /\ ~lastCall'.force /\ lastCall.redrawAt # NoneVal) =>
                now' - lastCall.redrawAt >= update_interval
        /\ (Redraws /\ ~lastCall'.force /\ lastCall.redrawAt = NoneVal) =>
                now' - progress.start_time >= update_interval

\* C9 (as amended): update redraws throttled, and the current counter is
\* updated on every call whether or not it redraws: incremented by one when no
\* value is passed, set to the passed value otherwise.
C9_ThrottledRedraw ==
    [][/\ Throttle
       /\ IsUpdate =>
            progress'.current = IF lastCall'.current = NoneVal
                                THEN progress.current + 1
                                ELSE lastCall'.current]_vars

\* C9 as stated: update redraws throttled, and the current counter advances on
\* every call whether or not it redraws.
C9_CounterAdvances ==
    [][Throttle /\ (IsUpdate => progress'.current > progress.current)]_vars

\* a call that did not redraw and still moved the counter, then two redraws
\* update_interval apart, the later one by a non-forced call
C9_Witness ==
    /\ lastCall.n = 3
    /\ ~lastCall.force
    /\ writes = 2
    /\ lastCall.redrawAt = now
    /\ progress.current = 3
    /\ shown.kind = "bar"

----------------------------------------------------------------------------
(* Properties of the two mappings of analyze_repo *)

\* the extensions of which some candidate has been counted so far
CountedSoFar == {processed[i][1] : i \in 1..Len(processed)}

\* the extensions of which some candidate survives exclusion
Surviving ==
    {include_extensions[i] : i \in {j \in 1..Len(include_extensions) : Counted(j) # {}}}

====
